---- MODULE Spec2Model ----
(***************************************************************************)
(* Model of script.py: the availability-calendar synchroniser.             *)
(*                                                                         *)
(* Time is counted in hours.  A timestamp string of the calendar API is a  *)
(* record [k, v, off]:                                                     *)
(*   k = "dateTime": the text "<day>T<hour><offset>", v the wall-clock     *)
(*                   reading in hours, off the UTC offset in hours         *)
(*                   (off = 0 is the suffix "Z");                          *)
(*   k = "date":     the text "<day>", v the day number;                   *)
(*   k = "none":     the key is absent from the dictionary.                *)
(* The calendar provider is the environment: it filters list calls on      *)
(* instants, assigns fresh identifiers and may fail any call.              *)
(***************************************************************************)
EXTENDS Integers, Sequences, FiniteSets, TLC

VARIABLES cal, AVAILABILITY_CALENDAR_ID, nextId, clock, runs,
          pc, phase, calendar_id, time_min, time_max, listed, idx, log, cal0, prev, edits

vars == <<cal, AVAILABILITY_CALENDAR_ID, nextId, clock, runs,
          pc, phase, calendar_id, time_min, time_max, listed, idx, log, cal0, prev, edits>>

----------------------------------------------------------------------------
(* Bounds *)

MaxRuns == 2
MaxEdits == 1

(* Program constants *)

HoursPerDay == 24
WindowDays == 7

Procs == {1, 2}
CalendarIds == {"primary", "availability"}

----------------------------------------------------------------------------
(* Timestamp strings *)

None == [k |-> "none", v |-> 0, off |-> 0]
DateTime(loc, o) == [k |-> "dateTime", v |-> loc, off |-> o]
Date(d) == [k |-> "date", v |-> d, off |-> 0]

(* a start/end dictionary of an event as the provider returns it *)
AtTime(loc, o) == [dateTime |-> DateTime(loc, o), date |-> None, timeZone |-> "local"]
AllDay(d) == [dateTime |-> None, date |-> Date(d), timeZone |-> "absent"]

(* The instant the provider reads in a timestamp: the wall clock minus the *)
(* offset; a day text is midnight UTC of that day.                         *)
Instant(s) ==
  IF s.k = "dateTime" THEN s.v - s.off ELSE s.v * HoursPerDay

(* the instant at which the provider places a start or end of an event *)
When(field) ==
  Instant(IF field.dateTime # None THEN field.dateTime ELSE field.date)

(* field.get("dateTime", field.get("date")) *)
EffectiveNoFallback(field) == field.dateTime

Effective(field) ==
  IF field.dateTime # None THEN field.dateTime ELSE field.date

(* event.get("transparency", "") *)
Transparency(e) ==
  IF e.transparency = "absent" THEN "" ELSE e.transparency

IsBusyOpaqueOnly(e) == Transparency(e) = "opaque"

(* event.get("transparency", "") != "transparent" *)
IsBusy(e) == Transparency(e) # "transparent"

Ids(S) == {e.id : e \in S}

----------------------------------------------------------------------------
(* The provider's list call: events().list(calendarId, timeMin, timeMax,   *)
(* singleEvents, orderBy = startTime).  timeMin is an exclusive lower      *)
(* bound on the end of an event, timeMax an exclusive upper bound on its   *)
(* start.                                                                  *)

InRange(events, tmin, tmax) ==
  {e \in events : /\ When(e.end) > Instant(tmin)
                  /\ When(e.start) < Instant(tmax)}

(* the orders the provider may return S in: ascending start, ties free *)
Earliest(S) ==
  {e \in S : \A f \in S :
     When(e.start) <= When(f.start)}

RECURSIVE OrderedListings(_)
OrderedListings(S) ==
  IF S = {} THEN {<<>>}
  ELSE UNION {{<<e>> \o t : t \in OrderedListings(S \ {e})} : e \in Earliest(S)}

get_first_event(cid, tmin, tmax) ==
  {IF s = <<>> THEN s ELSE <<s[1]>> :
     s \in OrderedListings(InRange(cal[cid], tmin, tmax))}

get_all_events(cid, tmin, tmax) ==
  OrderedListings(InRange(cal[cid], tmin, tmax))

(* least index j >= i of s whose event is busy; Len(s) + 1 when none *)
RECURSIVE NextBusy(_, _)
NextBusy(s, i) ==
  IF i > Len(s) THEN Len(s) + 1
  ELSE IF IsBusy(s[i]) THEN i
  ELSE NextBusy(s, i + 1)

(* body of the event create_busy_event inserts *)
BusyBodyStartOnly(start, end) ==
  [summary |-> "Busy",
   start |-> [dateTime |-> start, date |-> None, timeZone |-> "UTC"],
   end |-> [dateTime |-> start, date |-> None, timeZone |-> "UTC"],
   transparency |-> "absent"]

BusyBody(start, end) ==
  [summary |-> "Busy",
   start |-> [dateTime |-> start, date |-> None, timeZone |-> "UTC"],
   end |-> [dateTime |-> end, date |-> None, timeZone |-> "UTC"],
   transparency |-> "absent"]

WithId(body, id) ==
  [id |-> id, summary |-> body.summary, start |-> body.start,
   end |-> body.end, transparency |-> body.transparency]

(* calendar the deletes of delete_all_availability_events go to *)
DeleteCalendar == AVAILABILITY_CALENDAR_ID
(* calendar the insert of create_busy_event goes to *)
InsertCalendarPrimary == "primary"

InsertCalendar == AVAILABILITY_CALENDAR_ID

(* __main__: the two calls in program order *)
FirstPhaseSync == "sync_list"

FirstPhase == "clear_list"

AfterClearExit == "done"

AfterClear == "sync_list"
AfterSync == "done"

----------------------------------------------------------------------------
(* Calendars the run may find *)

Ev(id, summary, start, end, tr) ==
  [id |-> id, summary |-> summary, start |-> start, end |-> end,
   transparency |-> tr]

Nows == {30, 40}

SourcePool ==
  { Ev(1, "Meeting", AtTime(50, 0), AtTime(51, 0), "opaque"),
    Ev(2, "Focus", AtTime(50, 0), AtTime(51, 0), "transparent"),
    Ev(3, "Call", AtTime(50, 0), AtTime(51, 0), "absent"),
    Ev(4, "Holiday", AllDay(3), AllDay(4), "absent"),
    Ev(5, "Standup", AtTime(32, -7), AtTime(33, -7), "opaque") }

MirrorPool ==
  { Ev(11, "Busy", AtTime(50, 0), AtTime(51, 0), "absent"),
    Ev(12, "Lunch", AtTime(39, 0), AtTime(40, 0), "opaque") }

FirstFreshId == 21

NoPrev == [ok |-> FALSE, tmin |-> None, tmax |-> None, src |-> {}, mirror |-> {}]

Init ==
  /\ AVAILABILITY_CALENDAR_ID \in CalendarIds
  /\ \E src \in SUBSET SourcePool, mir \in SUBSET MirrorPool :
       cal = IF AVAILABILITY_CALENDAR_ID = "primary"
             THEN [c \in CalendarIds |-> IF c = "primary" THEN src \cup mir ELSE {}]
             ELSE [c \in CalendarIds |-> IF c = "primary" THEN src ELSE mir]
  /\ nextId = FirstFreshId
  /\ clock = 0
  /\ runs = 0
  /\ pc = [p \in Procs |-> "idle"]
  /\ phase = [p \in Procs |-> "none"]
  /\ calendar_id = [p \in Procs |-> "primary"]
  /\ time_min = [p \in Procs |-> None]
  /\ time_max = [p \in Procs |-> None]
  /\ listed = [p \in Procs |-> <<>>]
  /\ idx = [p \in Procs |-> 1]
  /\ log = [p \in Procs |-> <<>>]
  /\ cal0 = [p \in Procs |-> cal]
  /\ prev = NoPrev
  /\ edits = 0

----------------------------------------------------------------------------
(* One run of the script *)

Call(op, cid, ok, id) ==
  [op |-> op, cal |-> cid, ok |-> ok, id |-> id]

Terminated(p) == pc[p] \in {"idle", "done", "aborted"}

(* __main__ up to the first call: the window is read off the clock twice *)
Begin(p, now, now2) ==
  /\ time_min' = [time_min EXCEPT ![p] = DateTime(now, 0)]
  /\ time_max' = [time_max EXCEPT ![p] = DateTime(now2 + WindowDays * HoursPerDay, 0)]
  /\ clock' = now2
  /\ pc' = [pc EXCEPT ![p] = FirstPhase]
  /\ phase' = [phase EXCEPT ![p] = "none"]
  /\ UNCHANGED calendar_id
  /\ listed' = [listed EXCEPT ![p] = <<>>]
  /\ idx' = [idx EXCEPT ![p] = 1]
  /\ log' = [log EXCEPT ![p] = <<>>]
  /\ cal0' = [cal0 EXCEPT ![p] = cal]
  /\ runs' = runs + 1

(* the script is started after the previous run has ended *)
Invoke(p) ==
  /\ runs < MaxRuns
  /\ \A q \in Procs : Terminated(q)
  /\ \E now, now2 \in Nows :
       /\ clock <= now /\ now <= now2
       /\ Begin(p, now, now2)
  /\ prev' = IF pc[p] = "done"
             THEN [ok |-> TRUE, tmin |-> time_min[p], tmax |-> time_max[p],
                   src |-> cal0[p]["primary"],
                   mirror |-> cal[AVAILABILITY_CALENDAR_ID]]
             ELSE NoPrev
  /\ UNCHANGED <<cal, AVAILABILITY_CALENDAR_ID, nextId, edits>>

(* delete_all_availability_events: the list call *)
ClearList(p) ==
  /\ pc[p] = "clear_list"
  /\ \E s \in get_all_events(AVAILABILITY_CALENDAR_ID, time_min[p], time_max[p]) :
       /\ listed' = [listed EXCEPT ![p] = s]
       /\ pc' = [pc EXCEPT ![p] = IF Len(s) = 0 THEN AfterClear ELSE "clear_delete"]
  /\ idx' = [idx EXCEPT ![p] = 1]
  /\ phase' = [phase EXCEPT ![p] = "clear"]
  /\ log' = [log EXCEPT ![p] = Append(@, Call("list", AVAILABILITY_CALENDAR_ID, TRUE, 0))]
  /\ UNCHANGED <<cal, AVAILABILITY_CALENDAR_ID, nextId, clock, runs, calendar_id,
                 time_min, time_max, cal0, prev, edits>>

(* delete_all_availability_events: one delete call of the loop *)
ClearDelete(p) ==
  /\ pc[p] = "clear_delete"
  /\ listed[p][idx[p]].id \in Ids(cal[DeleteCalendar])
  /\ cal' = [cal EXCEPT ![DeleteCalendar] =
               {e \in @ : e.id # listed[p][idx[p]].id}]
  /\ log' = [log EXCEPT ![p] =
               Append(@, Call("delete", DeleteCalendar, TRUE, listed[p][idx[p]].id))]
  /\ idx' = [idx EXCEPT ![p] = @ + 1]
  /\ pc' = [pc EXCEPT ![p] = IF idx[p] = Len(listed[p]) THEN AfterClear ELSE "clear_delete"]
  /\ UNCHANGED <<AVAILABILITY_CALENDAR_ID, nextId, clock, runs, phase, calendar_id,
                 time_min, time_max, listed, cal0, prev, edits>>

(* sync_availability: the list call; transparent events are skipped *)
SyncList(p) ==
  /\ pc[p] = "sync_list"
  /\ \E s \in get_all_events("primary", time_min[p], time_max[p]) :
       /\ listed' = [listed EXCEPT ![p] = s]
       /\ idx' = [idx EXCEPT ![p] = NextBusy(s, 1)]
       /\ pc' = [pc EXCEPT ![p] = IF NextBusy(s, 1) > Len(s) THEN AfterSync ELSE "sync_insert"]
  /\ phase' = [phase EXCEPT ![p] = "sync"]
  /\ log' = [log EXCEPT ![p] = Append(@, Call("list", "primary", TRUE, 0))]
  /\ UNCHANGED <<cal, AVAILABILITY_CALENDAR_ID, nextId, clock, runs, calendar_id,
                 time_min, time_max, cal0, prev, edits>>

SyncInsertDedup(p) ==
  /\ pc[p] = "sync_insert"
  /\ LET e == listed[p][idx[p]]
         body == BusyBody(Effective(e.start), Effective(e.end))
         nxt == NextBusy(listed[p], idx[p] + 1)
         dup == \E m \in cal[InsertCalendar] :
                  m.start = body.start /\ m.end = body.end
     IN /\ cal' = IF dup THEN cal
                  ELSE [cal EXCEPT ![InsertCalendar] = @ \cup {WithId(body, nextId)}]
        /\ log' = IF dup THEN log
                  ELSE [log EXCEPT ![p] = Append(@, Call("insert", InsertCalendar, TRUE, nextId))]
        /\ idx' = [idx EXCEPT ![p] = nxt]
        /\ pc' = [pc EXCEPT ![p] = IF nxt > Len(listed[p]) THEN AfterSync ELSE "sync_insert"]
  /\ nextId' = nextId + 1
  /\ UNCHANGED <<AVAILABILITY_CALENDAR_ID, clock, runs, phase, calendar_id,
                 time_min, time_max, listed, cal0, prev, edits>>

(* sync_availability: create_busy_event for the next busy event *)
SyncInsert(p) ==
  /\ pc[p] = "sync_insert"
  /\ LET e == listed[p][idx[p]]
         body == BusyBody(Effective(e.start), Effective(e.end))
         nxt == NextBusy(listed[p], idx[p] + 1)
     IN /\ cal' = [cal EXCEPT ![InsertCalendar] = @ \cup {WithId(body, nextId)}]
        /\ log' = [log EXCEPT ![p] = Append(@, Call("insert", InsertCalendar, TRUE, nextId))]
        /\ idx' = [idx EXCEPT ![p] = nxt]
        /\ pc' = [pc EXCEPT ![p] = IF nxt > Len(listed[p]) THEN AfterSync ELSE "sync_insert"]
  /\ nextId' = nextId + 1
  /\ UNCHANGED <<AVAILABILITY_CALENDAR_ID, clock, runs, phase, calendar_id,
                 time_min, time_max, listed, cal0, prev, edits>>

OpAt(p) ==
  CASE pc[p] \in {"clear_list", "sync_list", "overlap_list"} -> "list"
    [] pc[p] \in {"clear_delete", "overlap_delete"} -> "delete"
    [] OTHER -> "insert"

CalAt(p) ==
  CASE pc[p] = "clear_list" -> AVAILABILITY_CALENDAR_ID
    [] pc[p] = "clear_delete" -> DeleteCalendar
    [] pc[p] = "sync_list" -> "primary"
    [] pc[p] \in {"overlap_list", "overlap_delete"} -> calendar_id[p]
    [] OTHER -> InsertCalendar

CallFailsRetried(p) ==
  /\ pc[p] \in {"clear_list", "clear_delete", "sync_list", "sync_insert",
                "overlap_list", "overlap_delete"}
  /\ Len(log[p]) < 8
  /\ log' = [log EXCEPT ![p] = Append(@, Call(OpAt(p), CalAt(p), FALSE, 0))]
  /\ UNCHANGED <<cal, AVAILABILITY_CALENDAR_ID, nextId, clock, runs, pc, phase, calendar_id,
                 time_min, time_max, listed, idx, cal0, prev, edits>>

(* a provider call raises: nothing catches it, the process ends *)
CallFails(p) ==
  /\ pc[p] \in {"clear_list", "clear_delete", "sync_list", "sync_insert",
                "overlap_list", "overlap_delete"}
  /\ log' = [log EXCEPT ![p] = Append(@, Call(OpAt(p), CalAt(p), FALSE, 0))]
  /\ pc' = [pc EXCEPT ![p] = "aborted"]
  /\ UNCHANGED <<cal, AVAILABILITY_CALENDAR_ID, nextId, clock, runs, phase, calendar_id,
                 time_min, time_max, listed, idx, cal0, prev, edits>>

Next ==
  \/ Invoke(1)
  \/ ClearList(1)
  \/ ClearDelete(1)
  \/ SyncList(1)
  \/ SyncInsert(1)
  \/ CallFails(1)

Spec == Init /\ [][Next]_vars

----------------------------------------------------------------------------
(* delete_overlapping_events *)

(* Order of two timestamp texts as Python compares strings: day, then hour, *)
(* then the offset suffix ("+hh:00" < "-hh:00" < "Z"); a day text is a      *)
(* proper prefix of every timestamp of that day.                            *)
SuffixRank(o) ==
  IF o > 0 THEN o ELSE IF o < 0 THEN 100 - o ELSE 1000

StrKey(s) ==
  IF s.k = "dateTime"
  THEN <<s.v \div HoursPerDay, s.v % HoursPerDay, SuffixRank(s.off)>>
  ELSE <<s.v, -1, -1>>

StrLeq(a, b) ==
  LET x == StrKey(a)
      y == StrKey(b)
  IN \/ x[1] < y[1]
     \/ x[1] = y[1] /\ x[2] < y[2]
     \/ x[1] = y[1] /\ x[2] = y[2] /\ x[3] <= y[3]

OverlapsAlways(e, start, end) == TRUE

(* event_start <= end and event_end >= start *)
Overlaps(e, start, end) ==
  /\ StrLeq(Effective(e.start), end)
  /\ StrLeq(start, Effective(e.end))

(* least index j >= i of s whose event passes the overlap test *)
RECURSIVE NextOverlapping(_, _, _, _)
NextOverlapping(s, i, start, end) ==
  IF i > Len(s) THEN Len(s) + 1
  ELSE IF Overlaps(s[i], start, end) THEN i
  ELSE NextOverlapping(s, i + 1, start, end)

OverlapPool ==
  { Ev(1, "Busy", AtTime(50, 0), AtTime(51, 0), "absent"),
    Ev(2, "Lunch", AtTime(39, 0), AtTime(40, 0), "opaque"),
    Ev(3, "Busy", AtTime(61, 9), AtTime(62, 9), "absent"),
    Ev(4, "Holiday", AllDay(2), AllDay(3), "absent"),
    Ev(5, "Busy", AtTime(58, -7), AtTime(59, -7), "absent"),
    Ev(6, "Busy", AtTime(60, 0), AtTime(61, 0), "absent") }

OverlapWindows ==
  { <<DateTime(40, 0), DateTime(60, 0)>>,
    <<DateTime(33, -7), DateTime(53, -7)>> }

InitOverlap ==
  /\ AVAILABILITY_CALENDAR_ID = "availability"
  /\ \E src \in SUBSET {e \in OverlapPool : e.id <= 2}, mir \in SUBSET OverlapPool :
       cal = [c \in CalendarIds |-> IF c = "primary" THEN src ELSE mir]
  /\ nextId = FirstFreshId
  /\ clock = 0
  /\ runs = 0
  /\ pc = [p \in Procs |-> "idle"]
  /\ phase = [p \in Procs |-> "none"]
  /\ calendar_id = [p \in Procs |-> "primary"]
  /\ time_min = [p \in Procs |-> None]
  /\ time_max = [p \in Procs |-> None]
  /\ listed = [p \in Procs |-> <<>>]
  /\ idx = [p \in Procs |-> 1]
  /\ log = [p \in Procs |-> <<>>]
  /\ cal0 = [p \in Procs |-> cal]
  /\ prev = NoPrev
  /\ edits = 0

(* a caller enters delete_overlapping_events(service, calendar_id, start, end) *)
OverlapCall(p) ==
  /\ pc[p] = "idle"
  /\ \E c \in CalendarIds, w \in OverlapWindows :
       /\ calendar_id' = [calendar_id EXCEPT ![p] = c]
       /\ time_min' = [time_min EXCEPT ![p] = w[1]]
       /\ time_max' = [time_max EXCEPT ![p] = w[2]]
  /\ pc' = [pc EXCEPT ![p] = "overlap_list"]
  /\ cal0' = [cal0 EXCEPT ![p] = cal]
  /\ UNCHANGED <<cal, AVAILABILITY_CALENDAR_ID, nextId, clock, runs, phase,
                 listed, idx, log, prev, edits>>

(* the list call; events failing the overlap test are skipped *)
OverlapList(p) ==
  /\ pc[p] = "overlap_list"
  /\ \E s \in get_all_events(calendar_id[p], time_min[p], time_max[p]) :
       LET nxt == NextOverlapping(s, 1, time_min[p], time_max[p])
       IN /\ listed' = [listed EXCEPT ![p] = s]
          /\ idx' = [idx EXCEPT ![p] = nxt]
          /\ pc' = [pc EXCEPT ![p] = IF nxt > Len(s) THEN "done" ELSE "overlap_delete"]
  /\ phase' = [phase EXCEPT ![p] = "overlap"]
  /\ log' = [log EXCEPT ![p] = Append(@, Call("list", calendar_id[p], TRUE, 0))]
  /\ UNCHANGED <<cal, AVAILABILITY_CALENDAR_ID, nextId, clock, runs, calendar_id,
                 time_min, time_max, cal0, prev, edits>>

(* the delete call for the next overlapping event *)
OverlapDelete(p) ==
  /\ pc[p] = "overlap_delete"
  /\ listed[p][idx[p]].id \in Ids(cal[calendar_id[p]])
  /\ LET nxt == NextOverlapping(listed[p], idx[p] + 1, time_min[p], time_max[p])
     IN /\ cal' = [cal EXCEPT ![calendar_id[p]] =
                     {e \in @ : e.id # listed[p][idx[p]].id}]
        /\ log' = [log EXCEPT ![p] =
                     Append(@, Call("delete", calendar_id[p], TRUE, listed[p][idx[p]].id))]
        /\ idx' = [idx EXCEPT ![p] = nxt]
        /\ pc' = [pc EXCEPT ![p] = IF nxt > Len(listed[p]) THEN "done" ELSE "overlap_delete"]
  /\ UNCHANGED <<AVAILABILITY_CALENDAR_ID, nextId, clock, runs, phase, calendar_id,
                 time_min, time_max, listed, cal0, prev, edits>>

NextOverlap ==
  \/ OverlapCall(1)
  \/ OverlapList(1)
  \/ OverlapDelete(1)
  \/ CallFails(1)

SpecOverlap == InitOverlap /\ [][NextOverlap]_vars

----------------------------------------------------------------------------
(* Two runs at once and a person editing the mirror calendar *)

InitConc ==
  /\ AVAILABILITY_CALENDAR_ID = "availability"
  /\ \E src \in SUBSET {e \in SourcePool : e.id <= 2},
        mir \in SUBSET {e \in MirrorPool : e.id = 11} :
       cal = [c \in CalendarIds |-> IF c = "primary" THEN src ELSE mir]
  /\ nextId = FirstFreshId
  /\ clock = 0
  /\ runs = 0
  /\ pc = [p \in Procs |-> "idle"]
  /\ phase = [p \in Procs |-> "none"]
  /\ calendar_id = [p \in Procs |-> "primary"]
  /\ time_min = [p \in Procs |-> None]
  /\ time_max = [p \in Procs |-> None]
  /\ listed = [p \in Procs |-> <<>>]
  /\ idx = [p \in Procs |-> 1]
  /\ log = [p \in Procs |-> <<>>]
  /\ cal0 = [p \in Procs |-> cal]
  /\ prev = NoPrev
  /\ edits = 0

(* the script is started while another run may be under way *)
InvokeConc(p) ==
  /\ pc[p] = "idle"
  /\ \E now, now2 \in Nows :
       /\ clock <= now /\ now <= now2
       /\ Begin(p, now, now2)
  /\ UNCHANGED <<cal, AVAILABILITY_CALENDAR_ID, nextId, prev, edits>>

(* the delete call for an event that is no longer there: the provider      *)
(* answers with an error                                                   *)
DeleteGone(p) ==
  /\ pc[p] = "clear_delete"
  /\ listed[p][idx[p]].id \notin Ids(cal[DeleteCalendar])
  /\ log' = [log EXCEPT ![p] = Append(@, Call("delete", DeleteCalendar, FALSE, 0))]
  /\ pc' = [pc EXCEPT ![p] = "aborted"]
  /\ UNCHANGED <<cal, AVAILABILITY_CALENDAR_ID, nextId, clock, runs, phase, calendar_id,
                 time_min, time_max, listed, idx, cal0, prev, edits>>

(* a person adds an event to the mirror calendar while a run is under way *)
ManualEdit ==
  /\ edits < MaxEdits
  /\ \E p \in Procs : ~Terminated(p)
  /\ cal' = [cal EXCEPT ![AVAILABILITY_CALENDAR_ID] =
               @ \cup {Ev(nextId, "Manual", AtTime(60, 0), AtTime(61, 0), "opaque")}]
  /\ nextId' = nextId + 1
  /\ edits' = edits + 1
  /\ UNCHANGED <<AVAILABILITY_CALENDAR_ID, clock, runs, pc, phase, calendar_id,
                 time_min, time_max, listed, idx, log, cal0, prev>>

NextConc ==
  \/ \E p \in Procs :
       \/ InvokeConc(p)
       \/ ClearList(p)
       \/ ClearDelete(p)
       \/ DeleteGone(p)
       \/ SyncList(p)
       \/ SyncInsert(p)
       \/ CallFails(p)
  \/ ManualEdit

SpecConc == InitConc /\ [][NextConc]_vars

----------------------------------------------------------------------------
(* Vocabulary of the properties *)

Interval(e) == <<When(e.start), When(e.end)>>

CountOf(S, iv) == Cardinality({e \in S : Interval(e) = iv})

SameIntervals(A, B) ==
  \A iv \in {Interval(e) : e \in A \cup B} : CountOf(A, iv) = CountOf(B, iv)

InWindow(events, p) == InRange(events, time_min[p], time_max[p])

NotFree(e) == e.transparency \in {"absent", "opaque"}

Mirror == cal[AVAILABILITY_CALENDAR_ID]

(* the events of the source listing the sync loop has gone past *)
Passed(p) == SubSeq(listed[p], 1, idx[p] - 1)

(* the successful calls of one kind in the log of p, in order *)
Done(p, op) == SelectSeq(log[p], LAMBDA c : c.op = op /\ c.ok)

DoneIds(p, op) == {Done(p, op)[i].id : i \in DOMAIN Done(p, op)}

(* the event the i-th successful insert of p created *)
Created(p, i) ==
  CHOOSE m \in cal[Done(p, "insert")[i].cal] : m.id = Done(p, "insert")[i].id

(* how many events of s[1..i] are not marked free *)
Rank(s, i) == Cardinality({j \in 1..i : NotFree(s[j])})

Completed(p) == pc[p] = "done" /\ phase[p] = "sync"

----------------------------------------------------------------------------
C4_BusyFilter ==
  phase[1] = "sync" =>
    /\ Len(Done(1, "insert")) = Rank(Passed(1), Len(Passed(1)))
    /\ \A i \in DOMAIN Passed(1) :
         NotFree(Passed(1)[i]) =>
           Interval(Created(1, Rank(Passed(1), i))) = Interval(Passed(1)[i])

C4_Witness ==
  /\ Completed(1)
  /\ \E i, j, k \in DOMAIN listed[1] :
       /\ listed[1][i].transparency = "transparent"
       /\ listed[1][j].transparency = "absent"
       /\ listed[1][k].transparency = "opaque"
  /\ Len(Done(1, "insert")) = Len(listed[1]) - 1

(* C5: the mirror event of a busy source event carries, as start and end,  *)
(* the dateTime of the source event when it has one and its date           *)
(* otherwise; an all-day event is not dropped.                             *)
C5_AllDayFallback ==
  phase[1] = "sync" =>
    \A i \in DOMAIN Passed(1) :
      NotFree(Passed(1)[i]) =>
        LET e == Passed(1)[i]
            m == Created(1, Rank(Passed(1), i))
        IN /\ m.start.dateTime =
                IF e.start.dateTime = None THEN e.start.date ELSE e.start.dateTime
           /\ m.end.dateTime =
                IF e.end.dateTime = None THEN e.end.date ELSE e.end.dateTime
           /\ m.start.timeZone = "UTC" /\ m.end.timeZone = "UTC"

C5_Witness ==
  /\ phase[1] = "sync"
  /\ \E i \in DOMAIN Passed(1) :
       /\ Passed(1)[i].start.dateTime = None
       /\ Created(1, Rank(Passed(1), i)).start.dateTime = Date(3)
       /\ Created(1, Rank(Passed(1), i)).end.dateTime = Date(4)

C7_AbortNoRollback ==
  /\ \A i \in DOMAIN log[1] :
       ~log[1][i].ok => i = Len(log[1]) /\ pc[1] = "aborted"
  /\ pc[1] = "aborted" =>
       /\ log[1] # <<>> /\ ~log[1][Len(log[1])].ok
       /\ Ids(Mirror) = (Ids(cal0[1][AVAILABILITY_CALENDAR_ID]) \ DoneIds(1, "delete"))
                          \cup DoneIds(1, "insert")
       /\ phase[1] # "sync" =>
            /\ DoneIds(1, "insert") = {}
            /\ Ids(Mirror) \subseteq Ids(cal0[1][AVAILABILITY_CALENDAR_ID])

C7_Witness ==
  /\ pc[1] = "aborted"
  /\ phase[1] = "sync"
  /\ DoneIds(1, "delete") # {}
  /\ DoneIds(1, "insert") # {}
  /\ DoneIds(1, "insert") \subseteq Ids(Mirror)
  /\ idx[1] <= Len(listed[1])

(* C8: in the log of a run every delete precedes every insert and the      *)
(* listing of the source, the mirror is listed once and first, the source  *)
(* once, and no event the run created is deleted by it.                    *)
C8_PhaseOrder ==
  LET l == log[1]
      lists == {i \in DOMAIN l : l[i].op = "list"}
  IN /\ \A i, j \in DOMAIN l :
          l[j].op = "delete" /\ (l[i].op = "insert" \/ (l[i].op = "list" /\ i > 1)) => j < i
     /\ \A i \in DOMAIN l : l[i].op = "insert" => \E j \in lists : 1 < j /\ j < i
     /\ l # <<>> => l[1].op = "list" /\ l[1].cal = AVAILABILITY_CALENDAR_ID
     /\ Cardinality(lists) <= 2
     /\ \A i \in lists : i > 1 => l[i].cal = "primary"
     /\ pc[1] = "done" => Cardinality(lists) = 2
     /\ DoneIds(1, "delete") \cap DoneIds(1, "insert") = {}

C8_Witness ==
  /\ pc[1] = "done"
  /\ Len(Done(1, "delete")) >= 2
  /\ Len(Done(1, "insert")) >= 2

Text(field) == IF field.dateTime = None THEN field.date ELSE field.dateTime

Deleted(p, e) == e.id \notin Ids(cal[calendar_id[p]])

C9_RaceBound ==
  ( /\ Completed(1) /\ Completed(2)
    /\ time_min[1] = time_min[2] /\ time_max[1] = time_max[2] )
  => LET busy == {e \in InWindow(cal["primary"], 1) : NotFree(e)}
         made == {m \in InWindow(Mirror, 1) : m.summary = "Busy"}
     IN /\ \A iv \in {Interval(e) : e \in busy \cup made} :
             /\ CountOf(busy, iv) <= CountOf(made, iv)
             /\ CountOf(made, iv) <= 2 * CountOf(busy, iv)
        /\ Ids(InWindow(cal0[1][AVAILABILITY_CALENDAR_ID], 1))
             \cap Ids(InWindow(cal0[2][AVAILABILITY_CALENDAR_ID], 2)) \cap Ids(Mirror) = {}

(* both runs completed without error and the mirror calendar is not what   *)
(* a cycle is to leave: an interval is mirrored twice, or an event added   *)
(* during the runs is still there                                          *)
C9_Witness ==
  /\ Completed(1) /\ Completed(2)
  /\ time_min[1] = time_min[2] /\ time_max[1] = time_max[2]
  /\ \A p \in Procs : \A i \in DOMAIN log[p] : log[p][i].ok
  /\ ~SameIntervals(InWindow(Mirror, 1),
                    {e \in InWindow(cal["primary"], 1) : NotFree(e)})

====
